---------------------------- MODULE Spec2Model ----------------------------
(***************************************************************************)
(* A model of dc.py, the drive chart generator: the reader of one row of   *)
(* a drive data file (read_drive_datafile), the merge of the two teams'    *)
(* drive arrays (merge_drive_arrays), the text chart line (get_dc_string), *)
(* the box coordinates (get_dc_coords), the arrows (get_triangle_coords)    *)
(* and the main script: its text chart, the sizes of the field, the team   *)
(* tables, the static field, the drive box loop, the labels and the order  *)
(* in which the artists are added to the drawing surface.  Strings that    *)
(* the code slices or measures are sequences of one-character strings.     *)
(***************************************************************************)
EXTENDS Integers, Sequences, FiniteSets, TLC

VARIABLES
    pc,                 \* position of the script / of the function under study
    d1, d2,             \* merge_drive_arrays: the two arguments
    d_merged,           \* merge_drive_arrays: the list being built
    d1_index, d2_index, \* merge_drive_arrays: the two read positions
    row,                \* read_drive_datafile: the .csv line being read
    team_home_or_road,  \* read_drive_datafile: argument "HOME" / "ROAD"
    offensive_team,     \* read_drive_datafile: argument offensive_team
    drive_array,        \* read_drive_datafile: the list returned
    coords,             \* get_dc_coords: the pair (left, width) returned
    drive,              \* get_dc_string: the drive record being rendered
    dc_string,          \* get_dc_string: the line returned
    merged_drive_data,  \* main: the merged sequence walked by the box loop
    d_pos,              \* main: number of records the box loop has consumed
    y_coord_for_drive_box,
    this_quarter,
    home_team_drive_count,
    road_team_drive_count,
    home_team_drives,   \* dict: drive_name -> rectangle
    road_team_drives,   \* dict: drive_name -> rectangle
    dashed_quarter_lines, \* dict: quarter_line_name -> y of the line
    triangle_markers,   \* dict: drive_name -> triangle
    teams,              \* main: args.teams.split(","), the pair (road, home)
    printed,            \* main: what the script has printed so far
    layout,             \* main: the sizes of the field, once computed
    ax                  \* main: the drawing surface, once created

vars == <<pc, d1, d2, d_merged, d1_index, d2_index, row, team_home_or_road,
          offensive_team, drive_array, coords, drive, dc_string,
          merged_drive_data, d_pos, y_coord_for_drive_box, this_quarter,
          home_team_drive_count, road_team_drive_count, home_team_drives,
          road_team_drives, dashed_quarter_lines, triangle_markers,
          teams, printed, layout, ax>>

mergeVars == <<d1, d2, d_merged, d1_index, d2_index>>
readVars  == <<row, team_home_or_road, offensive_team, drive_array, coords>>
textVars  == <<drive, dc_string>>
drawVars  == <<merged_drive_data, d_pos, y_coord_for_drive_box, this_quarter,
               home_team_drive_count, road_team_drive_count, home_team_drives,
               road_team_drives, dashed_quarter_lines, triangle_markers>>
mainVars  == <<teams, printed, layout, ax>>

-----------------------------------------------------------------------------
(* Bounds of the model *)

MaxLen == 2        \* longest drive array given to the merge
MaxTime == 2       \* largest elapsed time of a drive given to the merge
MaxPlays == 1      \* largest number of plays of a drive row
MaxNet == 2        \* largest net yards of a drive row, either sign
MaxDrives == 3     \* longest merged sequence walked by the drive box loop
MaxQuarter == 2    \* largest quarter number in that sequence
MaxLiveLen == 2     \* longest drive array of the runs followed to their end
MaxLiveTime == 1    \* largest elapsed time of a drive in those runs
MaxMainDrives == 2  \* longest merged sequence of the runs of the whole script
MaxLabelNet == 16   \* largest net yards of the drives whose labels are placed
MaxCount == 30      \* largest drive counter whose key prefix is compared

-----------------------------------------------------------------------------
(* The two teams of the game (args.teams, "Road,Home") *)

road_abbrev == <<"A", "T", "L">>
home_abbrev == <<"N", "W", "E">>

NoValue == "none"

-----------------------------------------------------------------------------
(* merge_drive_arrays                                                      *)
(* A drive is the record of the columns the merge reads (5: length of the  *)
(* drive in time, 10: elapsed time) and of the columns that tell one line  *)
(* from another (0: drive number, 9: offensive team).                      *)

ZERO_TIME == <<"0", ":", "0", "0">>
SOME_TIME == <<"2", ":", "1", "5">>

MergeDrives(team) ==
    [num : {0}, team : {team}, elapsed : 0..MaxTime, length : {ZERO_TIME, SOME_TIME}]

\* the drive arrays of one team: line k carries drive number k
MergeArrays(team) ==
    UNION { { [k \in 1..n |-> [f[k] EXCEPT !.num = k]] : f \in [1..n -> MergeDrives(team)] }
            : n \in 0..MaxLen }

COL_FOR_LENGTH_OF_DRIVE_IN_TIME(d) == d.length
COL_FOR_ELAPSED_TIME_SINCE_START_OF_GAME(d) == d.elapsed

d1_len == Len(d1)
d2_len == Len(d2)

\* while d1_index < d1_len or d2_index < d2_len  (indices are 0-based in the code)
MergeLoopCond == d1_index < d1_len \/ d2_index < d2_len
BothLeft == d1_index < d1_len /\ d2_index < d2_len
d1_cur == d1[d1_index + 1]
d2_cur == d2[d2_index + 1]
d1_elapsed_time == COL_FOR_ELAPSED_TIME_SINCE_START_OF_GAME(d1_cur)
d2_elapsed_time == COL_FOR_ELAPSED_TIME_SINCE_START_OF_GAME(d2_cur)
d1_drive_time == COL_FOR_LENGTH_OF_DRIVE_IN_TIME(d1_cur)
d2_drive_time == COL_FOR_LENGTH_OF_DRIVE_IN_TIME(d2_cur)

TakeD1 ==
    /\ d_merged' = Append(d_merged, d1_cur)
    /\ d1_index' = d1_index + 1
    /\ UNCHANGED <<d1, d2, d2_index, pc>>

\* a copy-and-paste slip: the second branch appends the first array's line
TakeD2_AppendsD1 ==
    /\ d_merged' = Append(d_merged, d1_cur)
    /\ d2_index' = d2_index + 1
    /\ UNCHANGED <<d1, d2, d1_index, pc>>

TakeD2 ==
    /\ d_merged' = Append(d_merged, d2_cur)
    /\ d2_index' = d2_index + 1
    /\ UNCHANGED <<d1, d2, d1_index, pc>>

IsZeroDrive(t) == t = ZERO_TIME

\* the comparison written the wrong way round: the later drive is taken first
MergeLess_TakesLater ==
    /\ pc = "merge" /\ MergeLoopCond /\ BothLeft
    /\ d1_elapsed_time < d2_elapsed_time
    /\ TakeD2
    /\ UNCHANGED <<readVars, textVars, drawVars, mainVars>>

\* if d1_elapsed_time < d2_elapsed_time
MergeLess ==
    /\ pc = "merge" /\ MergeLoopCond /\ BothLeft
    /\ d1_elapsed_time < d2_elapsed_time
    /\ TakeD1
    /\ UNCHANGED <<readVars, textVars, drawVars, mainVars>>

\* elif d1_elapsed_time > d2_elapsed_time
MergeGreater ==
    /\ pc = "merge" /\ MergeLoopCond /\ BothLeft
    /\ d1_elapsed_time > d2_elapsed_time
    /\ TakeD2
    /\ UNCHANGED <<readVars, textVars, drawVars, mainVars>>

\* the tie of two zero-duration drives resolved for the second array
MergeTieD1_PrefersD2 ==
    /\ pc = "merge" /\ MergeLoopCond /\ BothLeft
    /\ d1_elapsed_time = d2_elapsed_time
    /\ IsZeroDrive(d1_drive_time)
    /\ IF IsZeroDrive(d2_drive_time) THEN TakeD2 ELSE TakeD1
    /\ UNCHANGED <<readVars, textVars, drawVars, mainVars>>

\* else: if d1_drive_time == "0:00"
MergeTieD1 ==
    /\ pc = "merge" /\ MergeLoopCond /\ BothLeft
    /\ d1_elapsed_time = d2_elapsed_time
    /\ IsZeroDrive(d1_drive_time)
    /\ TakeD1
    /\ UNCHANGED <<readVars, textVars, drawVars, mainVars>>

\* the tie resolved without looking at which side lasted zero seconds
MergeTieD2_TakesD1 ==
    /\ pc = "merge" /\ MergeLoopCond /\ BothLeft
    /\ d1_elapsed_time = d2_elapsed_time
    /\ ~IsZeroDrive(d1_drive_time)
    /\ IsZeroDrive(d2_drive_time)
    /\ TakeD1
    /\ UNCHANGED <<readVars, textVars, drawVars, mainVars>>

\* else: elif d2_drive_time == "0:00"
MergeTieD2 ==
    /\ pc = "merge" /\ MergeLoopCond /\ BothLeft
    /\ d1_elapsed_time = d2_elapsed_time
    /\ ~IsZeroDrive(d1_drive_time)
    /\ IsZeroDrive(d2_drive_time)
    /\ TakeD2
    /\ UNCHANGED <<readVars, textVars, drawVars, mainVars>>

\* the ambiguous tie resolved by a guess instead of quit()
MergeQuit_Guesses ==
    /\ pc = "merge" /\ MergeLoopCond /\ BothLeft
    /\ d1_elapsed_time = d2_elapsed_time
    /\ ~IsZeroDrive(d1_drive_time)
    /\ ~IsZeroDrive(d2_drive_time)
    /\ TakeD1
    /\ UNCHANGED <<readVars, textVars, drawVars, mainVars>>

\* else: else: print(...); quit()
MergeQuit ==
    /\ pc = "merge" /\ MergeLoopCond /\ BothLeft
    /\ d1_elapsed_time = d2_elapsed_time
    /\ ~IsZeroDrive(d1_drive_time)
    /\ ~IsZeroDrive(d2_drive_time)
    /\ pc' = "quit"
    /\ UNCHANGED <<mergeVars, readVars, textVars, drawVars, mainVars>>

\* the else branch without its second inner loop: the rest of d2 is left
MergeDrain_LeavesD2 ==
    /\ pc = "merge" /\ MergeLoopCond /\ ~BothLeft
    /\ d_merged' = d_merged \o SubSeq(d1, d1_index + 1, d1_len)
    /\ d1_index' = IF d1_index < d1_len THEN d1_len ELSE d1_index
    /\ UNCHANGED <<d1, d2, d2_index, pc>>
    /\ UNCHANGED <<readVars, textVars, drawVars, mainVars>>

\* else: drain whichever array still contains drive info (both inner loops)
MergeDrain ==
    /\ pc = "merge" /\ MergeLoopCond /\ ~BothLeft
    /\ d_merged' = d_merged \o SubSeq(d1, d1_index + 1, d1_len)
                            \o SubSeq(d2, d2_index + 1, d2_len)
    /\ d1_index' = IF d1_index < d1_len THEN d1_len ELSE d1_index
    /\ d2_index' = IF d2_index < d2_len THEN d2_len ELSE d2_index
    /\ UNCHANGED <<d1, d2, pc>>
    /\ UNCHANGED <<readVars, textVars, drawVars, mainVars>>

\* return d_merged
MergeReturn ==
    /\ pc = "merge" /\ ~MergeLoopCond
    /\ pc' = "returned"
    /\ UNCHANGED <<mergeVars, readVars, textVars, drawVars, mainVars>>

IdleRead ==
    /\ row = NoValue /\ team_home_or_road = NoValue /\ offensive_team = NoValue
    /\ drive_array = <<>> /\ coords = NoValue

IdleText == drive = NoValue /\ dc_string = NoValue

IdleDraw ==
    /\ merged_drive_data = <<>> /\ d_pos = 0 /\ y_coord_for_drive_box = 0
    /\ this_quarter = 1 /\ home_team_drive_count = 0 /\ road_team_drive_count = 0
    /\ home_team_drives = <<>> /\ road_team_drives = <<>>
    /\ dashed_quarter_lines = <<>> /\ triangle_markers = <<>>

\* the sizes of the field before the script computes them
NoLayout ==
    [computed |-> FALSE, number_of_drives |-> 0, field_height |-> 0,
     field_height_with_borders |-> 0, field_width_with_borders |-> 0,
     figure_size_width |-> 0, figure_size_height |-> 0, width_of_drive_arrows |-> <<0, 1>>]

\* the drawing surface before the script creates it
NoSurface ==
    [created |-> FALSE, figsize |-> <<0, 0>>, xlim |-> <<0, 0>>, ylim |-> <<0, 0>>,
     artists |-> <<>>]

IdleMain == teams = NoValue /\ printed = <<>> /\ layout = NoLayout /\ ax = NoSurface

IdleMerge ==
    /\ d1 = <<>> /\ d2 = <<>> /\ d_merged = <<>> /\ d1_index = 0 /\ d2_index = 0

\* merged_drive_data = merge_drive_arrays(road_drive_data, home_drive_data)
MergeInit ==
    /\ pc = "merge"
    /\ d1 \in MergeArrays(road_abbrev)
    /\ d2 \in MergeArrays(home_abbrev)
    /\ d_merged = <<>>
    /\ d1_index = 0 /\ d2_index = 0
    /\ IdleRead /\ IdleText /\ IdleDraw /\ IdleMain

MergeNext ==
    \/ MergeLess
    \/ MergeGreater
    \/ MergeTieD1
    \/ MergeTieD2
    \/ MergeQuit
    \/ MergeDrain
    \/ MergeReturn

SpecMerge == MergeInit /\ [][MergeNext]_vars

\* the drive arrays of one team of up to len lines with times up to time
MergeArraysUpTo(team, len, time) ==
    UNION { { [k \in 1..n |-> [num |-> k, team |-> team, elapsed |-> f[k][1], length |-> f[k][2]]]
                : f \in [1..n -> (0..time) \X {ZERO_TIME, SOME_TIME}] }
            : n \in 0..len }

MergeLiveInit ==
    /\ pc = "merge"
    /\ d1 \in MergeArraysUpTo(road_abbrev, MaxLiveLen, MaxLiveTime)
    /\ d2 \in MergeArraysUpTo(home_abbrev, MaxLiveLen, MaxLiveTime)
    /\ d_merged = <<>>
    /\ d1_index = 0 /\ d2_index = 0
    /\ IdleRead /\ IdleText /\ IdleDraw /\ IdleMain

\* the function runs on until it returns or quits: the interpreter always
\* takes the next step of the loop
SpecMergeLive == MergeLiveInit /\ [][MergeNext]_vars /\ WF_vars(MergeNext)

-----------------------------------------------------------------------------
(* read_drive_datafile, for one line of the file                           *)
(* A line is the record of its columns; commas is line.count(",") and      *)
(* header tells whether the word "Quarter" is in the line.  The column LOS *)
(* is the empty sequence or the pair <<team, yard line>> that              *)
(* split(" ") gives.                                                       *)

YardScale == 100
Midfield == 50
QuarterSeconds == 900
MinCommas == 7

Abs(x) == IF x < 0 THEN -x ELSE x
Min(x, y) == IF x <= y THEN x ELSE y

CsvLines ==
    [commas  : {MinCommas - 1, MinCommas},
     header  : BOOLEAN,
     quarter : {1},
     clock   : {<<12, 30>>},
     los     : {<<>>} \cup ({home_abbrev, road_abbrev} \X (0..YardScale)),
     plays   : 0..MaxPlays,
     length  : {SOME_TIME},
     net     : (-MaxNet)..MaxNet,
     result  : {"Punt"}]

\* if len(line) > 0 and ("Quarter" not in line) and line.count(",") >= 7
LineAccepted(line) == ~line.header /\ line.commas >= MinCommas

\* (15*60*quarter) - ((minutes * 60) + seconds)
elapsed_time_from_start_of_game_in_seconds(line) ==
    (QuarterSeconds * line.quarter) - ((line.clock[1] * 60) + line.clock[2])

\* the line-of-scrimmage team compared with the wrong abbreviation
adjusted_starting_yard_line_ByOffense(line, h, offense) ==
    IF Len(line.los) > 0
    THEN IF line.los[1] = offense THEN line.los[2] ELSE YardScale - line.los[2]
    ELSE Midfield

adjusted_starting_yard_line(line, h, offense) ==
    IF Len(line.los) > 0
    THEN IF line.los[1] = h THEN line.los[2] ELSE YardScale - line.los[2]
    ELSE Midfield

adjusted_ending_yard_line(start, net, home_or_road) ==
    IF home_or_road = "HOME" THEN start + net ELSE start - net

\* new_line: the line, an empty comment when the line has none, and the
\* columns 9 (offensive team), 10 (elapsed time), 11 and 12 (yard lines)
new_line(line, h, home_or_road, offense) ==
    LET start == IF line.plays > 0
                 THEN adjusted_starting_yard_line(line, h, offense) ELSE -1
        end   == IF line.plays > 0
                 THEN adjusted_ending_yard_line(start, line.net, home_or_road) ELSE -1
    IN [num     |-> 1,
        quarter |-> line.quarter,
        clock   |-> line.clock,
        los     |-> line.los,
        plays   |-> line.plays,
        length  |-> line.length,
        net     |-> line.net,
        result  |-> line.result,
        comment |-> "",
        team    |-> offense,
        elapsed |-> elapsed_time_from_start_of_game_in_seconds(line),
        start   |-> start,
        end     |-> end]

\* get_dc_coords before the fix of the negative drives: the sign of the net
\* yards is not looked at
get_dc_coords_IgnoresSign(offensive_team_abbrev, home_team_abbrev, plays, net_yards_as_int, starting_yard_line, ending_yard_line) ==
    IF plays > 0
    THEN <<IF offensive_team_abbrev = home_team_abbrev
           THEN starting_yard_line ELSE ending_yard_line,
           Abs(ending_yard_line - starting_yard_line) + 1>>
    ELSE <<0, 0>>

\* returns (left, width)
get_dc_coords(offensive_team_abbrev, home_team_abbrev, plays, net_yards_as_int, starting_yard_line, ending_yard_line) ==
    IF plays > 0
    THEN LET width == Abs(ending_yard_line - starting_yard_line) + 1
             left  == IF offensive_team_abbrev = home_team_abbrev
                      THEN IF net_yards_as_int >= 0
                           THEN starting_yard_line
                           ELSE starting_yard_line + net_yards_as_int
                      ELSE IF net_yards_as_int >= 0
                           THEN ending_yard_line
                           ELSE ending_yard_line + net_yards_as_int
         IN <<left, width>>
    ELSE <<0, 0>>

\* the line passes the test of line 235 and is appended to drive_array
ReadLine ==
    /\ pc = "read" /\ LineAccepted(row)
    /\ drive_array' = Append(drive_array,
                             new_line(row, home_abbrev, team_home_or_road, offensive_team))
    /\ pc' = "read_done"
    /\ UNCHANGED <<row, team_home_or_road, offensive_team, coords>>
    /\ UNCHANGED <<mergeVars, textVars, drawVars, mainVars>>

\* the line fails the test of line 235 and is skipped
SkipLine ==
    /\ pc = "read" /\ ~LineAccepted(row)
    /\ pc' = "read_done"
    /\ UNCHANGED <<readVars, mergeVars, textVars, drawVars, mainVars>>

\* get_dc_coords on the line just stored, with the home team of the game
CallGetDcCoords ==
    /\ pc = "read_done" /\ drive_array # <<>>
    /\ LET d == drive_array[1]
       IN coords' = get_dc_coords(d.team, home_abbrev, d.plays, d.net, d.start, d.end)
    /\ pc' = "coords_done"
    /\ UNCHANGED <<row, team_home_or_road, offensive_team, drive_array>>
    /\ UNCHANGED <<mergeVars, textVars, drawVars, mainVars>>

ReadInit ==
    /\ pc = "read"
    /\ row \in CsvLines
    /\ team_home_or_road \in {"ROAD", "HOME"}
    /\ offensive_team \in {road_abbrev, home_abbrev}
    /\ drive_array = <<>>
    /\ coords = NoValue
    /\ IdleMerge /\ IdleText /\ IdleDraw /\ IdleMain

ReadNext ==
    \/ ReadLine
    \/ SkipLine
    \/ CallGetDcCoords

SpecRead == ReadInit /\ [][ReadNext]_vars

-----------------------------------------------------------------------------
(* get_dc_string: one line of the text chart                               *)

DC_PREFIX_WIDTH == 29
FIELD_HEADER_WIDTH == 99

PUNT == <<"P", "u", "n", "t">>
FIELD_GOAL == <<"F", "i", "e", "l", "d", " ", "G", "o", "a", "l">>
END_OF_HALF == <<"E", "n", "d", " ", "o", "f", " ", "H", "a", "l", "f">>
START_TIME == <<"1", "2", ":", "3", "0">>

Max(x, y) == IF x >= y THEN x ELSE y

\* c * n: the empty string when n is not positive
Repeat(c, n) == [i \in 1..n |-> c]

\* s[:k] and s[k:], with the meaning Python gives to negative and to large k
SliceTo(s, k) == SubSeq(s, 1, IF k >= 0 THEN Min(k, Len(s)) ELSE Max(0, Len(s) + k))
SliceFrom(s, k) == SubSeq(s, (IF k >= 0 THEN Min(k, Len(s)) ELSE Max(0, Len(s) + k)) + 1, Len(s))

\* "%ns" % s: right-justified in n columns, never cut
Pad(s, n) == Repeat(" ", n - Len(s)) \o s

Digit(n) == <<"0", "1", "2", "3", "4", "5", "6", "7", "8", "9">>[n + 1]

RECURSIVE StrNat(_)
\* str(n) for n >= 0
StrNat(n) == IF n < 10 THEN <<Digit(n)>> ELSE StrNat(n \div 10) \o <<Digit(n % 10)>>

get_result_abbrev(result) ==
    IF result = FIELD_GOAL THEN <<"G">>
    ELSE IF result = END_OF_HALF THEN <<"H">>
    ELSE SliceTo(result, 1)

get_net_yards_as_string(net_yards_as_int) ==
    IF net_yards_as_int >= 0
    THEN StrNat(net_yards_as_int)
    ELSE <<"(">> \o StrNat(Abs(net_yards_as_int)) \o <<")">>

\* the dash rule as long as the drive, with no room left for the two ends
number_of_dashes_NoEnds(starting_yard_line, ending_yard_line) ==
    Abs(ending_yard_line - starting_yard_line)

number_of_dashes(starting_yard_line, ending_yard_line) ==
    Abs(ending_yard_line - starting_yard_line) - 1

prefix_width(home_team_abbrev) == DC_PREFIX_WIDTH + Len(home_team_abbrev) - 1

\* "%2s %2s: %7s %4s [%4s]" followed by the blank track
raw_field(offensive_team_abbrev, home_team_abbrev, plays, net_yards_as_int, quarter, drive_length_in_time, start_time_of_drive) ==
    LET summary == StrNat(plays) \o <<"-">> \o get_net_yards_as_string(net_yards_as_int)
    IN Pad(quarter, 2) \o <<" ">> \o Pad(offensive_team_abbrev, 2) \o <<":", " ">>
       \o Pad(summary, 7) \o <<" ">> \o Pad(drive_length_in_time, 4)
       \o <<" ", "[">> \o Pad(start_time_of_drive, 4) \o <<"]">>
       \o Repeat(" ", Len(home_team_abbrev) + FIELD_HEADER_WIDTH + Len(home_team_abbrev))

d_field(offensive_team_abbrev, home_team_abbrev, starting_yard_line, ending_yard_line, result) ==
    LET dashes == Repeat("-", number_of_dashes(starting_yard_line, ending_yard_line))
        glyph  == Pad(get_result_abbrev(result), 1)
    IN IF offensive_team_abbrev = home_team_abbrev
       THEN IF ending_yard_line >= starting_yard_line
            THEN <<">">> \o dashes \o glyph
            ELSE glyph \o dashes \o <<">">>
       ELSE IF starting_yard_line >= ending_yard_line
            THEN glyph \o dashes \o <<"<">>
            ELSE <<"<">> \o dashes \o glyph

left_pos_loc(offensive_team_abbrev, home_team_abbrev, starting_yard_line, ending_yard_line) ==
    IF offensive_team_abbrev = home_team_abbrev
    THEN starting_yard_line + prefix_width(home_team_abbrev)
    ELSE ending_yard_line + prefix_width(home_team_abbrev)

right_pos_loc(offensive_team_abbrev, home_team_abbrev, starting_yard_line, ending_yard_line) ==
    IF offensive_team_abbrev = home_team_abbrev
    THEN ending_yard_line + prefix_width(home_team_abbrev)
    ELSE starting_yard_line + prefix_width(home_team_abbrev)

get_dc_string(offensive_team_abbrev, home_team_abbrev, plays, net_yards_as_int, quarter, drive_length_in_time, start_time_of_drive, starting_yard_line, ending_yard_line, result) ==
    LET raw == raw_field(offensive_team_abbrev, home_team_abbrev, plays, net_yards_as_int,
                         quarter, drive_length_in_time, start_time_of_drive)
    IN IF plays > 0
       THEN SliceTo(raw, left_pos_loc(offensive_team_abbrev, home_team_abbrev,
                                      starting_yard_line, ending_yard_line))
            \o d_field(offensive_team_abbrev, home_team_abbrev,
                       starting_yard_line, ending_yard_line, result)
            \o SliceFrom(raw, right_pos_loc(offensive_team_abbrev, home_team_abbrev,
                                            starting_yard_line, ending_yard_line) + 1)
       ELSE raw

\* the drives of the merged sequence as read_drive_datafile stores them:
\* yard lines -1 for a drive of no plays, else a start and an end on the
\* scale with the net yards that lead from the one to the other
GhostDrive(t) ==
    [team |-> t, quarter |-> <<"1">>, clock |-> START_TIME, plays |-> 0,
     length |-> ZERO_TIME, net |-> 0, result |-> END_OF_HALF, start |-> -1, end |-> -1]

PlayedDrive(t, n, r, s, e) ==
    [team |-> t, quarter |-> <<"1">>, clock |-> START_TIME, plays |-> n,
     length |-> SOME_TIME, net |-> IF t = home_abbrev THEN e - s ELSE s - e,
     result |-> r, start |-> s, end |-> e]

RawFieldOf(d) ==
    raw_field(d.team, home_abbrev, d.plays, d.net, d.quarter, d.length, d.clock)

\* dc_line = get_dc_string(...) for one drive of the merged sequence
CallGetDcString ==
    /\ pc = "text"
    /\ dc_string' = get_dc_string(drive.team, home_abbrev, drive.plays, drive.net,
                                  drive.quarter, drive.length, drive.clock,
                                  drive.start, drive.end, drive.result)
    /\ pc' = "text_done"
    /\ UNCHANGED <<drive, mergeVars, readVars, drawVars, mainVars>>

TextInit ==
    /\ pc = "text"
    /\ \/ \E t \in {road_abbrev, home_abbrev} : drive = GhostDrive(t)
       \/ \E t \in {road_abbrev, home_abbrev}, n \in 1..MaxPlays, r \in {PUNT, FIELD_GOAL},
             s \in 0..YardScale, e \in 0..YardScale : drive = PlayedDrive(t, n, r, s, e)
    /\ dc_string = NoValue
    /\ IdleMerge /\ IdleRead /\ IdleDraw /\ IdleMain

TextNext == CallGetDcString

SpecText == TextInit /\ [][TextNext]_vars

-----------------------------------------------------------------------------
(* The drive box loop of the main script                                   *)
(* A dict is the sequence of its <<key, value>> pairs in the order of      *)
(* insertion; a number that the code computes by true division is the pair *)
(* <<numerator, denominator>>.                                             *)

pixels_per_yard == 2
yds2px(yards) == yards * pixels_per_yard

field_width == yds2px(120)
height_of_drive_box == 8
space_between_drive_boxes == 4
field_borders == yds2px(3)
yd_mrk_distance_from_border == 2
yardage_marker_height == 10
MinFieldHeight == 58

MISSED_FG == <<"M", "i", "s", "s", "e", "d", " ", "F", "G">>
TOUCHDOWN == <<"T", "o", "u", "c", "h", "d", "o", "w", "n">>
INTERCEPTION == <<"I", "n", "t", "e", "r", "c", "e", "p", "t", "i", "o", "n">>
FUMBLE == <<"F", "u", "m", "b", "l", "e">>
END_OF_GAME == <<"E", "n", "d", " ", "o", "f", " ", "G", "a", "m", "e">>
DOWNS == <<"D", "o", "w", "n", "s">>
SAFETY == <<"S", "a", "f", "e", "t", "y">>

get_dc_result_abbrev(result) ==
    IF result = FIELD_GOAL THEN "FG"
    ELSE IF result = MISSED_FG THEN "MISS FG"
    ELSE IF result = TOUCHDOWN THEN "TD"
    ELSE IF result = INTERCEPTION THEN "INT"
    ELSE IF result = FUMBLE THEN "FUM"
    ELSE IF result = PUNT THEN "PUNT"
    ELSE IF result = END_OF_HALF THEN "HALF"
    ELSE IF result = END_OF_GAME THEN "END"
    ELSE IF result = DOWNS THEN "DOWNS"
    ELSE IF result = SAFETY THEN "SAF"
    ELSE SliceTo(result, 1)

Rat(n, d) == <<n, d>>

\* x + r and x - r for an integer x and a pair r
RatPlus(x, r) == Rat(x * r[2] + r[1], r[2])
RatMinus(x, r) == Rat(x * r[2] - r[1], r[2])
RatHalf(r) == Rat(r[1], 2 * r[2])

\* the arrow of a road drive drawn with its point towards the box
get_triangle_coords_Inward(direction, box_x_coord, box_y_coord, box_height, width) ==
    LET x == IF direction = "left" THEN box_x_coord - 1 ELSE box_x_coord + 1
        y == box_y_coord + 1
        height == box_height - 2
    IN <<  <<Rat(x, 1), Rat(y, 1)>>,
           <<RatPlus(x, RatHalf(width)), RatPlus(y, RatHalf(Rat(height, 1)))>>,
           <<Rat(x, 1), Rat(y + height, 1)>>  >>

\* the three corners (t_left, t_right, t_top) of the arrow
get_triangle_coords(direction, box_x_coord, box_y_coord, box_height, width) ==
    LET x == IF direction = "left" THEN box_x_coord - 1 ELSE box_x_coord + 1
        y == box_y_coord + 1
        height == box_height - 2
        t_left  == <<Rat(x, 1), Rat(y, 1)>>
        t_right == IF direction = "left"
                   THEN <<RatMinus(x, RatHalf(width)), RatPlus(y, RatHalf(Rat(height, 1)))>>
                   ELSE <<RatPlus(x, RatHalf(width)), RatPlus(y, RatHalf(Rat(height, 1)))>>
        t_top   == <<Rat(x, 1), Rat(y + height, 1)>>
    IN <<t_left, t_right, t_top>>

number_of_drives == Len(merged_drive_data)

\* field_height computed from the drives that have plays only
field_height_CountsPlayed ==
    LET h == (Cardinality({k \in 1..number_of_drives : merged_drive_data[k].plays > 0})
                 * (height_of_drive_box + space_between_drive_boxes))
             + (2 * (yd_mrk_distance_from_border + yardage_marker_height))
             + space_between_drive_boxes
    IN IF h < MinFieldHeight THEN MinFieldHeight ELSE h

\* field_height without the gap under the last box
field_height_NoLastGap ==
    LET h == (number_of_drives * (height_of_drive_box + space_between_drive_boxes))
             + (2 * (yd_mrk_distance_from_border + yardage_marker_height))
    IN IF h < MinFieldHeight THEN MinFieldHeight ELSE h

field_height ==
    LET h == (number_of_drives * (height_of_drive_box + space_between_drive_boxes))
             + (2 * (yd_mrk_distance_from_border + yardage_marker_height))
             + space_between_drive_boxes
    IN IF h < MinFieldHeight THEN MinFieldHeight ELSE h

field_height_with_borders == field_height + (field_borders * 2)
field_width_with_borders == field_width + (field_borders * 2) + 1

width_of_drive_arrows ==
    Rat(height_of_drive_box * field_width_with_borders, field_height_with_borders)

\* y_coord_for_drive_box before the loop
FirstBoxY ==
    field_height_with_borders - field_borders - yd_mrk_distance_from_border
    - yardage_marker_height - space_between_drive_boxes - height_of_drive_box

\* dict[key] = value: a new key goes to the end, an old key keeps its place
DictPut(dict, key, value) ==
    IF \E i \in 1..Len(dict) : dict[i][1] = key
    THEN [i \in 1..Len(dict) |-> IF dict[i][1] = key THEN <<key, value>> ELSE dict[i]]
    ELSE Append(dict, <<key, value>>)

\* the lines of the two files that the merged sequences of the model are
\* made of: a drive of no plays, a drive that gained 20 yards from the home
\* team's 25, a drive that lost 4 yards from the road team's 5
DrawLine(q, kind) ==
    [commas  |-> MinCommas,
     header  |-> FALSE,
     quarter |-> q,
     clock   |-> <<12, 30>>,
     los     |-> IF kind = "ghost" THEN <<>>
                 ELSE IF kind = "gain" THEN <<home_abbrev, 25>> ELSE <<road_abbrev, 5>>,
     plays   |-> IF kind = "ghost" THEN 0 ELSE 3,
     length  |-> IF kind = "ghost" THEN ZERO_TIME ELSE SOME_TIME,
     net     |-> IF kind = "ghost" THEN 0 ELSE IF kind = "gain" THEN 20 ELSE -4,
     result  |-> IF kind = "ghost" THEN END_OF_HALF
                 ELSE IF kind = "gain" THEN FIELD_GOAL ELSE PUNT]

\* the records read_drive_datafile makes of them in the script's two calls
DrawDrives ==
    { new_line(DrawLine(q, kind), home_abbrev, "ROAD", road_abbrev)
        : q \in 1..MaxQuarter, kind \in {"ghost", "gain", "loss"} }
    \cup
    { new_line(DrawLine(q, kind), home_abbrev, "HOME", home_abbrev)
        : q \in 1..MaxQuarter, kind \in {"ghost", "gain", "loss"} }

\* the test of line 655 passing for a drive of no plays as well
HasPlays_Always(d) == d.plays >= 0

\* if int(d.split(",")[4]) > 0
HasPlays(d) == d.plays > 0

CurDrive == merged_drive_data[d_pos + 1]

\* drive_name without the counter of the team's drives
drive_name_NoCount(side, count, d) ==
    <<side, 0, get_dc_result_abbrev(d.result),
      <<d.plays, get_net_yards_as_string(d.net), d.length>>, d.comment>>

\* drive_name, as the tuple of the fields the code joins with "_"
drive_name(side, count, d) ==
    <<side, count, get_dc_result_abbrev(d.result),
      <<d.plays, get_net_yards_as_string(d.net), d.length>>, d.comment>>

\* the string the code makes of a drive_name: "home" or "road", str(count),
\* "_", the result, "_", "%d-%s %s" % (plays, net yards, length), "_", the
\* comment; the result and a comment that is not empty are one element each
KeyString(name) ==
    (IF name[1] = "home" THEN <<"h", "o", "m", "e">> ELSE <<"r", "o", "a", "d">>)
    \o StrNat(name[2]) \o <<"_", name[3], "_">>
    \o StrNat(name[4][1]) \o <<"-">> \o name[4][2] \o <<" ">> \o name[4][3]
    \o <<"_">> \o (IF name[5] = "" THEN <<>> ELSE <<name[5]>>)

Rectangle(x, y, width, height, hatch) ==
    [x |-> x, y |-> y, width |-> width, height |-> height, hatch |-> hatch]

\* the dashed line drawn when the quarter is above that of the record before
\* it in the merged sequence, whether that record had plays or not
QuarterLine_PrevDrive(d) ==
    IF d_pos >= 1 /\ d.quarter > merged_drive_data[d_pos].quarter
    THEN /\ dashed_quarter_lines' =
              DictPut(dashed_quarter_lines, <<"Q", this_quarter>>,
                      Rectangle(1, y_coord_for_drive_box + height_of_drive_box
                                   + (space_between_drive_boxes \div 2),
                                field_width + (field_borders * 2) - 1, 0, FALSE))
         /\ this_quarter' = d.quarter
    ELSE UNCHANGED <<dashed_quarter_lines, this_quarter>>

\* the dashed line between the quarters, drawn when the quarter goes up
QuarterLine(d) ==
    IF d.quarter > this_quarter
    THEN /\ dashed_quarter_lines' =
              DictPut(dashed_quarter_lines, <<"Q", this_quarter>>,
                      Rectangle(1, y_coord_for_drive_box + height_of_drive_box
                                   + (space_between_drive_boxes \div 2),
                                field_width + (field_borders * 2) - 1, 0, FALSE))
         /\ this_quarter' = d.quarter
    ELSE UNCHANGED <<dashed_quarter_lines, this_quarter>>

\* the box of a drive, placed half a slot too high when a dashed line was
\* drawn in the same pass
DriveBox_AfterDivider(d) ==
    LET c == get_dc_coords(d.team, home_abbrev, d.plays, d.net, d.start, d.end)
    IN Rectangle(field_borders + yds2px(10) + yds2px(c[1]),
                 IF d.quarter > this_quarter
                 THEN y_coord_for_drive_box + height_of_drive_box
                      + (space_between_drive_boxes \div 2)
                 ELSE y_coord_for_drive_box,
                 yds2px(c[2]), height_of_drive_box, d.net < 0)

DriveBox(d) ==
    LET c == get_dc_coords(d.team, home_abbrev, d.plays, d.net, d.start, d.end)
    IN Rectangle(field_borders + yds2px(10) + yds2px(c[1]), y_coord_for_drive_box,
                 yds2px(c[2]), height_of_drive_box, d.net < 0)

\* a drive of no plays: the body of the loop is skipped
SkipGhostDrive ==
    /\ pc = "boxes" /\ d_pos < number_of_drives
    /\ ~HasPlays(CurDrive)
    /\ d_pos' = d_pos + 1
    /\ UNCHANGED <<pc, merged_drive_data, y_coord_for_drive_box, this_quarter,
                   home_team_drive_count, road_team_drive_count, home_team_drives,
                   road_team_drives, dashed_quarter_lines, triangle_markers>>
    /\ UNCHANGED <<mergeVars, readVars, textVars, mainVars>>

\* if offensive_team_abbrev == home_abbrev
HomeDrive ==
    /\ pc = "boxes" /\ d_pos < number_of_drives
    /\ HasPlays(CurDrive)
    /\ CurDrive.team = home_abbrev
    /\ LET d == CurDrive
           name == drive_name("home", home_team_drive_count, d)
           c == get_dc_coords(d.team, home_abbrev, d.plays, d.net, d.start, d.end)
       IN /\ QuarterLine(d)
          /\ home_team_drive_count' = home_team_drive_count + 1
          /\ home_team_drives' = DictPut(home_team_drives, name, DriveBox(d))
          /\ triangle_markers' =
                DictPut(triangle_markers, name,
                        get_triangle_coords("right", field_borders + yds2px(10 + c[1] + c[2]),
                                            y_coord_for_drive_box, height_of_drive_box,
                                            width_of_drive_arrows))
    /\ y_coord_for_drive_box' =
          y_coord_for_drive_box - (height_of_drive_box + space_between_drive_boxes)
    /\ d_pos' = d_pos + 1
    /\ UNCHANGED <<pc, merged_drive_data, road_team_drive_count, road_team_drives>>
    /\ UNCHANGED <<mergeVars, readVars, textVars, mainVars>>

\* else
RoadDrive ==
    /\ pc = "boxes" /\ d_pos < number_of_drives
    /\ HasPlays(CurDrive)
    /\ CurDrive.team # home_abbrev
    /\ LET d == CurDrive
           name == drive_name("road", road_team_drive_count, d)
           c == get_dc_coords(d.team, home_abbrev, d.plays, d.net, d.start, d.end)
       IN /\ QuarterLine(d)
          /\ road_team_drive_count' = road_team_drive_count + 1
          /\ road_team_drives' = DictPut(road_team_drives, name, DriveBox(d))
          /\ triangle_markers' =
                DictPut(triangle_markers, name,
                        get_triangle_coords("left", field_borders + yds2px(10 + c[1]),
                                            y_coord_for_drive_box, height_of_drive_box,
                                            width_of_drive_arrows))
    /\ y_coord_for_drive_box' =
          y_coord_for_drive_box - (height_of_drive_box + space_between_drive_boxes)
    /\ d_pos' = d_pos + 1
    /\ UNCHANGED <<pc, merged_drive_data, home_team_drive_count, home_team_drives>>
    /\ UNCHANGED <<mergeVars, readVars, textVars, mainVars>>

\* the loop has walked the whole merged sequence
BoxesDone ==
    /\ pc = "boxes" /\ d_pos = number_of_drives
    /\ pc' = "boxes_done"
    /\ UNCHANGED <<drawVars, mergeVars, readVars, textVars, mainVars>>

DrawInit ==
    /\ pc = "boxes"
    /\ \E n \in 0..MaxDrives : merged_drive_data \in [1..n -> DrawDrives]
    /\ d_pos = 0
    /\ y_coord_for_drive_box = FirstBoxY
    /\ this_quarter = 1
    /\ home_team_drive_count = 0 /\ road_team_drive_count = 0
    /\ home_team_drives = <<>> /\ road_team_drives = <<>>
    /\ dashed_quarter_lines = <<>> /\ triangle_markers = <<>>
    /\ IdleMerge /\ IdleRead /\ IdleText /\ IdleMain

DrawNext ==
    \/ SkipGhostDrive
    \/ HomeDrive
    \/ RoadDrive
    \/ BoxesDone

SpecDraw == DrawInit /\ [][DrawNext]_vars

-----------------------------------------------------------------------------
(* The main script: the team tables, the static field, the labels          *)
(* The drawing surface ax is the record of its limits and of the sequence  *)
(* of its artists, in the order in which the script adds them.  An artist  *)
(* is the record of its kind, its name (the dict key or the text), its     *)
(* anchor point, its extent, its horizontal alignment and its colour.      *)

\* a team code that the tables of lines 409-526 do not list
unlisted_abbrev == <<"X", "X", "X">>

\* the keys of team_nicknames, primary_team_colors and secondary_team_colors
\* (the three tables list the same codes)
team_nicknames == {road_abbrev, home_abbrev}
primary_team_colors == team_nicknames
secondary_team_colors == team_nicknames

Patch(kind, name, r) ==
    [kind |-> kind, name |-> name, x |-> Rat(r.x, 1), y |-> Rat(r.y, 1),
     shape |-> r, ha |-> "", color |-> ""]

\* ax.annotate / ax.text: the text with its anchor point
Text(kind, name, x, y, ha, color) ==
    [kind |-> kind, name |-> name, x |-> x, y |-> y, shape |-> "", ha |-> ha, color |-> color]

Polygon(kind, name, points) ==
    [kind |-> kind, name |-> name, x |-> points[1][1], y |-> points[1][2],
     shape |-> points, ha |-> "", color |-> ""]

\* the end zone of one team and the nickname written on it, centred at
\* cx = rx + width * num / den
EndZone(team, x, num, den) ==
    LET r == Rectangle(x, field_borders, yds2px(10), field_height, FALSE)
    IN << Patch("endzone", team, r),
          Text("endzone_text", team, Rat(den * r.x + num * r.width, den),
               Rat(2 * r.y + r.height, 2), "center", "secondary") >>

\* field_rectangles: the outer border and the twenty stripes of 4 yards
field_rectangles ==
    << Patch("border", "outerborder",
             Rectangle(0, 1, field_width_with_borders, field_height_with_borders - 1, FALSE)) >>
    \o [k \in 1..20 |->
          Patch("stripe", k, Rectangle(field_borders + yds2px(5 * k + 6), field_borders,
                                       yds2px(4), field_height, FALSE))]

\* one row of nine yardage markers, each with its number written on it
YardageMarkers(which, bottom) ==
    [i \in 1..18 |->
        LET k == (i + 1) \div 2
            r == Rectangle(field_borders + yds2px(10 * k + 6), bottom, yds2px(9),
                           yardage_marker_height, FALSE)
        IN IF i % 2 = 1 THEN Patch("yardage_marker", <<which, k>>, r)
           ELSE Text("yardage_text", <<which, k>>, Rat(2 * r.x + r.width, 2),
                     Rat(2 * r.y + r.height, 2), "center", "w")]

bottom_coord_for_yardage_markers == field_borders + yd_mrk_distance_from_border

bottom_coord_for_top_yardage_markers ==
    field_height_with_borders - field_borders - yd_mrk_distance_from_border
    - yardage_marker_height

\* everything lines 550-639 add to the surface, in their order
StaticField ==
    EndZone(home_abbrev, field_borders, 1, 2)
    \o EndZone(road_abbrev, yds2px(111) + field_borders, 2, 5)
    \o field_rectangles
    \o YardageMarkers("bottom", bottom_coord_for_yardage_markers)
    \o YardageMarkers("top", bottom_coord_for_top_yardage_markers)

\* the label of a home drive with a box of exactly 15 yards counted as short
home_label_ShortAt15(name, box) ==
    LET text == <<name[5], name[4], name[3]>>
        y == Rat(2 * box.y + box.height, 2)
    IN IF box.width <= yds2px(15)
       THEN Text("label", text, Rat(box.x, 1), y, "right", "black")
       ELSE Text("label", text, Rat(box.x + box.width, 1), y, "right", "white")

\* the label of a home drive: text_string_to_apply and where ax.text puts it
home_label(name, box) ==
    LET text == <<name[5], name[4], name[3]>>
        y == Rat(2 * box.y + box.height, 2)
    IN IF box.width < yds2px(15)
       THEN IF box.x < field_borders + yds2px(20)
            THEN Text("label", text, RatPlus(box.x + box.width, width_of_drive_arrows), y,
                      "left", "black")
            ELSE Text("label", text, Rat(box.x, 1), y, "right", "black")
       ELSE Text("label", text, Rat(box.x + box.width, 1), y, "right", "white")

\* the label of a road drive
road_label(name, box) ==
    LET text == <<name[3], name[4], name[5]>>
        y == Rat(2 * box.y + box.height, 2)
    IN IF box.width < yds2px(15)
       THEN IF box.x + box.width > field_borders + yds2px(100)
            THEN Text("label", text, RatMinus(box.x, width_of_drive_arrows), y,
                      "right", "black")
            ELSE Text("label", text, Rat(box.x + box.width, 1), y, "left", "black")
       ELSE Text("label", text, Rat(box.x, 1), y, "left", "white")

\* for r in home_team_drives: the box, then its label
HomeBoxesAndLabels ==
    [i \in 1..(2 * Len(home_team_drives)) |->
        LET item == home_team_drives[(i + 1) \div 2]
        IN IF i % 2 = 1 THEN Patch("drive_box", item[1], item[2])
           ELSE home_label(item[1], item[2])]

\* for r in road_team_drives: the box, then its label
RoadBoxesAndLabels ==
    [i \in 1..(2 * Len(road_team_drives)) |->
        LET item == road_team_drives[(i + 1) \div 2]
        IN IF i % 2 = 1 THEN Patch("drive_box", item[1], item[2])
           ELSE road_label(item[1], item[2])]

\* for q in dashed_quarter_lines
DashedLines ==
    [i \in 1..Len(dashed_quarter_lines) |->
        Patch("dashed_line", dashed_quarter_lines[i][1], dashed_quarter_lines[i][2])]

\* for t in triangle_markers
Triangles ==
    [i \in 1..Len(triangle_markers) |->
        Polygon("arrow", triangle_markers[i][1], triangle_markers[i][2])]

-----------------------------------------------------------------------------
(* The main script, from the arguments to plt.show()                       *)

road_of(t) == t[1]
home_of(t) == t[2]

\* the records of the two drive arrays when the script is run for teams t
MainDrives(t) ==
    { new_line(DrawLine(q, kind), home_of(t), "ROAD", road_of(t))
        : q \in 1..MaxQuarter, kind \in {"ghost", "gain", "loss"} }
    \cup
    { new_line(DrawLine(q, kind), home_of(t), "HOME", home_of(t))
        : q \in 1..MaxQuarter, kind \in {"ghost", "gain", "loss"} }

\* the start time of a drive as the file writes it
ClockString(c) ==
    StrNat(c[1]) \o <<":">> \o (IF c[2] < 10 THEN <<"0">> ELSE <<>>) \o StrNat(c[2])

\* print("%s,%s,%s,%s" % (road_drive_datafile, home_drive_datafile, road_abbrev, home_abbrev))
ArgsLine(t) == <<"args", road_of(t), home_of(t)>>

\* the table and the text chart of lines 366-376, one item for each print
TextChart(data, t) ==
    << <<"table_header">> >>
    \o [k \in 1..Len(data) |->
          <<"table_row", data[k].team, data[k].quarter, data[k].clock, data[k].los,
            data[k].plays, data[k].length, data[k].net, data[k].result>>]
    \o << <<"blank">>, <<"yard_marker_field_string", home_of(t)>>,
          <<"header_field_string", road_of(t), home_of(t)>> >>
    \o [k \in 1..Len(data) |->
          <<"dc_line",
            get_dc_string(data[k].team, home_of(t), data[k].plays, data[k].net,
                          StrNat(data[k].quarter), data[k].length,
                          ClockString(data[k].clock), data[k].start, data[k].end,
                          data[k].result)>>]

\* the sizes of lines 383-401
Layout ==
    [computed |-> TRUE,
     number_of_drives |-> number_of_drives,
     field_height |-> field_height,
     field_height_with_borders |-> field_height_with_borders,
     field_width_with_borders |-> field_width_with_borders,
     figure_size_width |-> 7 * pixels_per_yard,
     figure_size_height |-> (7 * field_height_with_borders) \div field_width_with_borders,
     width_of_drive_arrows |-> width_of_drive_arrows]

\* fig, ax = plt.subplots(...); ax.set_xlim(...); ax.set_ylim(...)
Surface(artists) ==
    [created |-> TRUE,
     figsize |-> <<layout.figure_size_width, layout.figure_size_height>>,
     xlim |-> <<0, layout.field_width_with_borders + 1>>,
     ylim |-> <<0, layout.field_height_with_borders + 1>>,
     artists |-> artists]

AddArtists(artists) == ax' = [ax EXCEPT !.artists = @ \o artists]

\* lines 351-359: print the arguments, read the two files, merge them
MainReadMerge ==
    /\ pc = "main"
    /\ printed' = Append(printed, ArgsLine(teams))
    /\ \E n \in 0..MaxMainDrives : merged_drive_data' \in [1..n -> MainDrives(teams)]
    /\ pc' = "chart"
    /\ UNCHANGED <<d_pos, y_coord_for_drive_box, this_quarter, home_team_drive_count,
                   road_team_drive_count, home_team_drives, road_team_drives,
                   dashed_quarter_lines, triangle_markers, teams, layout, ax>>
    /\ UNCHANGED <<mergeVars, readVars, textVars>>

\* lines 366-376: the table and the text chart
MainTextChart ==
    /\ pc = "chart"
    /\ printed' = printed \o TextChart(merged_drive_data, teams)
    /\ pc' = "sizes"
    /\ UNCHANGED <<teams, layout, ax>>
    /\ UNCHANGED <<mergeVars, readVars, textVars, drawVars>>

\* lines 383-401: the height and the width of the field
MainFieldHeight ==
    /\ pc = "sizes"
    /\ layout' = Layout
    /\ pc' = "figure"
    /\ UNCHANGED <<teams, printed, ax>>
    /\ UNCHANGED <<mergeVars, readVars, textVars, drawVars>>

\* lines 403-405: the drawing surface
MainFigure ==
    /\ pc = "figure"
    /\ ax' = Surface(<<>>)
    /\ pc' = "colors"
    /\ UNCHANGED <<teams, printed, layout>>
    /\ UNCHANGED <<mergeVars, readVars, textVars, drawVars>>

\* both team codes are keys of the two colour tables
TeamsListed ==
    /\ home_of(teams) \in primary_team_colors /\ home_of(teams) \in secondary_team_colors
    /\ road_of(teams) \in primary_team_colors /\ road_of(teams) \in secondary_team_colors

\* lines 528-531: the colours of the two teams are looked up
MainColors ==
    /\ pc = "colors"
    /\ TeamsListed
    /\ pc' = "field"
    /\ UNCHANGED <<mainVars, mergeVars, readVars, textVars, drawVars>>

\* lines 528-531: a dict does not have the key, and the script ends
MainKeyError ==
    /\ pc = "colors"
    /\ ~TeamsListed
    /\ pc' = "KeyError"
    /\ UNCHANGED <<mainVars, mergeVars, readVars, textVars, drawVars>>

\* lines 550-639: the end zones, the border and the stripes, the markers
MainField ==
    /\ pc = "field"
    /\ AddArtists(StaticField)
    /\ pc' = "loop_init"
    /\ UNCHANGED <<teams, printed, layout>>
    /\ UNCHANGED <<mergeVars, readVars, textVars, drawVars>>

\* lines 645-653: the dicts, the counters and the cursor before the loop
MainBoxInit ==
    /\ pc = "loop_init"
    /\ home_team_drives' = <<>> /\ road_team_drives' = <<>>
    /\ dashed_quarter_lines' = <<>> /\ triangle_markers' = <<>>
    /\ home_team_drive_count' = 0 /\ road_team_drive_count' = 0
    /\ y_coord_for_drive_box' = FirstBoxY
    /\ this_quarter' = 1
    /\ d_pos' = 0
    /\ pc' = "boxes"
    /\ UNCHANGED <<merged_drive_data, mainVars, mergeVars, readVars, textVars>>

\* lines 707-728: the boxes of the home team and their labels
MainHomeLabels ==
    /\ pc = "boxes_done"
    /\ AddArtists(HomeBoxesAndLabels)
    /\ pc' = "road_labels"
    /\ UNCHANGED <<teams, printed, layout>>
    /\ UNCHANGED <<mergeVars, readVars, textVars, drawVars>>

\* lines 734-754: the boxes of the road team and their labels
MainRoadLabels ==
    /\ pc = "road_labels"
    /\ AddArtists(RoadBoxesAndLabels)
    /\ pc' = "dashed"
    /\ UNCHANGED <<teams, printed, layout>>
    /\ UNCHANGED <<mergeVars, readVars, textVars, drawVars>>

\* the arrows put on the surface ahead of the dashed lines
MainDashedLines_ArrowsFirst ==
    /\ pc = "dashed"
    /\ AddArtists(Triangles \o DashedLines)
    /\ pc' = "triangles"
    /\ UNCHANGED <<teams, printed, layout>>
    /\ UNCHANGED <<mergeVars, readVars, textVars, drawVars>>

\* lines 756-757: the dashed lines between the quarters
MainDashedLines ==
    /\ pc = "dashed"
    /\ AddArtists(DashedLines)
    /\ pc' = "triangles"
    /\ UNCHANGED <<teams, printed, layout>>
    /\ UNCHANGED <<mergeVars, readVars, textVars, drawVars>>

\* lines 759-760: the arrows
MainTriangles ==
    /\ pc = "triangles"
    /\ AddArtists(Triangles)
    /\ pc' = "show"
    /\ UNCHANGED <<teams, printed, layout>>
    /\ UNCHANGED <<mergeVars, readVars, textVars, drawVars>>

\* lines 762-764: plt.show()
MainShow ==
    /\ pc = "show"
    /\ pc' = "shown"
    /\ UNCHANGED <<mainVars, mergeVars, readVars, textVars, drawVars>>

\* the script has its arguments: each team code is a listed one or not
MainInit ==
    /\ pc = "main"
    /\ teams \in {road_abbrev, unlisted_abbrev} \X {home_abbrev, unlisted_abbrev}
    /\ printed = <<>> /\ layout = NoLayout /\ ax = NoSurface
    /\ IdleMerge /\ IdleRead /\ IdleText /\ IdleDraw

MainNext ==
    \/ MainReadMerge
    \/ MainTextChart
    \/ MainFieldHeight
    \/ MainFigure
    \/ MainColors
    \/ MainKeyError
    \/ MainField
    \/ MainBoxInit
    \/ SkipGhostDrive
    \/ HomeDrive
    \/ RoadDrive
    \/ BoxesDone
    \/ MainHomeLabels
    \/ MainRoadLabels
    \/ MainDashedLines
    \/ MainTriangles
    \/ MainShow

SpecMain == MainInit /\ [][MainNext]_vars

-----------------------------------------------------------------------------
(* The labels of the drive boxes, for one drive anywhere on the field      *)

\* the line of a file for a drive of three plays from a yard line of either
\* half of the field, with its net yards
LabelLine(side, yard_line, net) ==
    [commas  |-> MinCommas,
     header  |-> FALSE,
     quarter |-> 1,
     clock   |-> <<12, 30>>,
     los     |-> <<side, yard_line>>,
     plays   |-> 3,
     length  |-> SOME_TIME,
     net     |-> net,
     result  |-> PUNT]

\* the script has read a single drive and is about to walk the merged sequence
LabelInit ==
    /\ pc = "boxes"
    /\ teams = <<road_abbrev, home_abbrev>>
    /\ \E side \in {road_abbrev, home_abbrev}, yard_line \in 1..Midfield,
          net \in (-MaxLabelNet)..MaxLabelNet :
          \/ merged_drive_data =
                << new_line(LabelLine(side, yard_line, net), home_abbrev, "ROAD", road_abbrev) >>
          \/ merged_drive_data =
                << new_line(LabelLine(side, yard_line, net), home_abbrev, "HOME", home_abbrev) >>
    /\ printed = <<ArgsLine(teams)>> \o TextChart(merged_drive_data, teams)
    /\ layout = Layout
    /\ ax = Surface(StaticField)
    /\ d_pos = 0
    /\ y_coord_for_drive_box = FirstBoxY
    /\ this_quarter = 1
    /\ home_team_drive_count = 0 /\ road_team_drive_count = 0
    /\ home_team_drives = <<>> /\ road_team_drives = <<>>
    /\ dashed_quarter_lines = <<>> /\ triangle_markers = <<>>
    /\ IdleMerge /\ IdleRead /\ IdleText

LabelNext ==
    \/ HomeDrive
    \/ RoadDrive
    \/ BoxesDone
    \/ MainHomeLabels
    \/ MainRoadLabels

SpecLabel == LabelInit /\ [][LabelNext]_vars

-----------------------------------------------------------------------------
(* Properties of merge_drive_arrays *)

IsRoadLine(d) == d.team = road_abbrev
IsHomeLine(d) == d.team = home_abbrev
NonDecreasing(s) == \A k \in 1..(Len(s) - 1) : s[k].elapsed <= s[k + 1].elapsed
Last(s) == s[Len(s)]
Tie == BothLeft /\ d1_elapsed_time = d2_elapsed_time
InMerged(d) == \E k \in 1..Len(d_merged) : d_merged[k] = d

\* C1: whenever merge_drive_arrays returns, the output is an interleaving of
\* its inputs: it is as long as both inputs together, and dropping the lines
\* of one input leaves the other input, in its original order.
C1_MergeIsInterleaving ==
    pc = "returned" =>
        /\ Len(d_merged) = Len(d1) + Len(d2)
        /\ SelectSeq(d_merged, IsRoadLine) = d1
        /\ SelectSeq(d_merged, IsHomeLine) = d2

\* a returned merge that really interleaves: a line of the second input
\* comes first and lines of the first input sit between lines of the second
C1_Witness ==
    /\ pc = "returned" /\ Len(d1) = 2 /\ Len(d2) = 2
    /\ d_merged[1].team = home_abbrev /\ d_merged[2].team = road_abbrev
    /\ d_merged[3].team = home_abbrev

\* C2: when both inputs are non-decreasing in elapsed time and the merge
\* returns, every pair of consecutive output lines is non-decreasing in
\* elapsed time.
C2_SortedInputsGiveSortedOutput ==
    (pc = "returned" /\ NonDecreasing(d1) /\ NonDecreasing(d2)) => NonDecreasing(d_merged)

\* sorted inputs with different times, returned, and really interleaved
C2_Witness ==
    /\ pc = "returned" /\ NonDecreasing(d1) /\ NonDecreasing(d2)
    /\ Len(d1) = 2 /\ Len(d2) = 2
    /\ d1[1].elapsed < d1[2].elapsed /\ d2[1].elapsed < d2[2].elapsed
    /\ d_merged[1].team = home_abbrev /\ d_merged[2].team = road_abbrev

\* C3: at a tie in elapsed time where exactly one of the two current lines
\* lasted "0:00", the step appends that line and advances only its index,
\* so the zero-duration line is in the output before its counterpart.
C3_ZeroDurationFirst ==
    [][ (pc = "merge" /\ Tie /\ (IsZeroDrive(d1_drive_time) # IsZeroDrive(d2_drive_time))) =>
          IF IsZeroDrive(d1_drive_time)
          THEN /\ d_merged' = Append(d_merged, d1_cur)
               /\ d1_index' = d1_index + 1 /\ d2_index' = d2_index
               /\ ~InMerged(d2_cur)'
          ELSE /\ d_merged' = Append(d_merged, d2_cur)
               /\ d2_index' = d2_index + 1 /\ d1_index' = d1_index
               /\ ~InMerged(d1_cur)' ]_vars

\* the second input's zero-duration line was just taken ahead of the first
\* input's simultaneous line, which is still waiting
C3_Witness ==
    /\ pc = "merge" /\ d_merged # <<>> /\ d1_index < d1_len
    /\ Last(d_merged).team = home_abbrev
    /\ IsZeroDrive(Last(d_merged).length)
    /\ Last(d_merged).elapsed = d1_elapsed_time
    /\ ~IsZeroDrive(d1_drive_time)
    /\ ~InMerged(d1_cur)

\* C4: at a tie in elapsed time where neither current line lasted "0:00",
\* the merge aborts the run: nothing is appended, no index moves, and the
\* aborted run takes no further step (so it never returns a sequence).
C4_AmbiguousTieAborts ==
    [][ /\ (pc = "merge" /\ Tie /\ ~IsZeroDrive(d1_drive_time) /\ ~IsZeroDrive(d2_drive_time))
            => (pc' = "quit" /\ UNCHANGED mergeVars)
        /\ pc # "quit" ]_vars

\* a run aborted at an ambiguous tie after it had already merged a line
C4_Witness ==
    /\ pc = "quit" /\ d_merged # <<>> /\ Tie
    /\ ~IsZeroDrive(d1_drive_time) /\ ~IsZeroDrive(d2_drive_time)

-----------------------------------------------------------------------------
(* Properties of read_drive_datafile and get_dc_coords *)

Stored == drive_array[1]
HasStored == pc \in {"read_done", "coords_done"} /\ drive_array # <<>>
OnScale(y) == 0 <= y /\ y <= YardScale

\* the two calls the script makes: the road file as "ROAD" with the road
\* team on offense, the home file as "HOME" with the home team on offense
MainCall ==
    \/ team_home_or_road = "ROAD" /\ offensive_team = road_abbrev
    \/ team_home_or_road = "HOME" /\ offensive_team = home_abbrev

\* C5: for every accepted row with plays > 0, raw yard line in 0..100 and
\* any net yards, the stored starting and ending yard lines are in [0,100].
C5_YardLinesOnScale ==
    (HasStored /\ Stored.plays > 0) => (OnScale(Stored.start) /\ OnScale(Stored.end))

\* C6: for every row with plays > 0 the stored ending yard line is the
\* starting yard line plus the net yards for a "HOME" file and minus the net
\* yards otherwise; the starting yard line is the raw yard line when the
\* line-of-scrimmage team is the home team, 100 minus it for another team,
\* and 50 for an empty field; the offensive_team argument plays no part.
C6_AdjustedYardLines ==
    (HasStored /\ Stored.plays > 0) =>
        /\ row.los = <<>> => Stored.start = 50
        /\ (row.los # <<>> /\ row.los[1] = home_abbrev) => Stored.start = row.los[2]
        /\ (row.los # <<>> /\ row.los[1] # home_abbrev) => Stored.start = 100 - row.los[2]
        /\ team_home_or_road = "HOME" => Stored.end - Stored.start = row.net
        /\ team_home_or_road # "HOME" => Stored.start - Stored.end = row.net

\* a "HOME" file read with the road team named as the offense, a line of
\* scrimmage on the road team's side and a loss of yards
C6_Witness ==
    /\ HasStored /\ Stored.plays > 0
    /\ team_home_or_road = "HOME" /\ offensive_team = road_abbrev
    /\ row.los # <<>> /\ row.los[1] = road_abbrev /\ row.los[2] = 30
    /\ row.net < 0 /\ Stored.start = 70 /\ Stored.end = 70 + row.net

\* C7: for every record read by one of the script's two calls with
\* plays > 0, get_dc_coords with the same home team returns
\* left = min(start, end) and width = |end - start| + 1.
C7_BoxSpansTheDrive ==
    (pc = "coords_done" /\ MainCall /\ Stored.plays > 0) =>
        /\ coords[1] = Min(Stored.start, Stored.end)
        /\ coords[2] = Abs(Stored.end - Stored.start) + 1

\* a road drive that lost yards: the box starts at the starting yard line
C7_Witness ==
    /\ pc = "coords_done" /\ MainCall /\ Stored.plays > 0
    /\ offensive_team = road_abbrev /\ Stored.net < 0
    /\ coords[1] = Stored.start /\ coords[2] = 1 - Stored.net

-----------------------------------------------------------------------------
(* Properties of get_dc_string *)

CountDashes(s) == Cardinality({k \in 1..Len(s) : s[k] = "-"})

\* the dashes of the line that are not those of its prefix fields
TrackDashes == CountDashes(dc_string) - CountDashes(RawFieldOf(drive))

\* the line of a drive of no plays: the prefix fields and a blank track
EmptyDriveLine ==
    get_dc_string(home_abbrev, home_abbrev, 0, 0, <<"1">>, ZERO_TIME, START_TIME, -1, -1, END_OF_HALF)

\* C9 as stated: for every drive with plays > 0 the number of dashes put in
\* the line is |start - end| - 1, also when start equals end.
C9_DashesAsStated ==
    (pc = "text_done" /\ drive.plays > 0) =>
        TrackDashes = Abs(drive.start - drive.end) - 1

\* C9, amended: for every drive with plays > 0 the number of dashes put in
\* the line is |start - end| - 1 when start differs from end, and 0 when
\* start equals end.
C9_DashRuleLength ==
    (pc = "text_done" /\ drive.plays > 0) =>
        TrackDashes = IF drive.start = drive.end THEN 0
                      ELSE Abs(drive.start - drive.end) - 1

\* a road drive of 30 yards (29 dashes) has been rendered
C9_Witness ==
    /\ pc = "text_done" /\ drive.plays > 0 /\ drive.team = road_abbrev
    /\ drive.start = 80 /\ drive.end = 50 /\ TrackDashes = 29

\* C10: with the same home abbreviation and prefix fields of the same
\* widths, every line get_dc_string returns is as long as every other: as
\* long as the line of a drive of no plays.
C10_FixedWidthLine ==
    pc = "text_done" => Len(dc_string) = Len(EmptyDriveLine)

\* the 1-based place in the line of the track column of a yard line
ColumnOf(yard_line) == yard_line + prefix_width(home_abbrev) + 1

\* C11: for every drive with plays > 0 and start # end, the result glyph is
\* at the column of the ending yard line, the arrowhead (">" for the home
\* team, "<" for the road team) at the column of the starting yard line,
\* and only dashes lie between them, for forward and for backward drives.
C11_GlyphAtEndArrowAtStart ==
    (pc = "text_done" /\ drive.plays > 0 /\ drive.start # drive.end) =>
        /\ dc_string[ColumnOf(drive.end)] = (IF drive.result = FIELD_GOAL THEN "G" ELSE "P")
        /\ dc_string[ColumnOf(drive.start)] = (IF drive.team = home_abbrev THEN ">" ELSE "<")
        /\ \A y \in 0..YardScale :
              (Min(drive.start, drive.end) < y /\ y < Max(drive.start, drive.end))
                  => dc_string[ColumnOf(y)] = "-"

-----------------------------------------------------------------------------
(* Properties of the drive box loop *)

\* C8: a drive with plays == 0 adds no drive box, no arrow and no quarter
\* divider, does not move the vertical stacking cursor and does not
\* increment either team's drive counter.
C8_GhostDriveDrawsNothing ==
    [][ (pc = "boxes" /\ d_pos < number_of_drives /\ CurDrive.plays = 0) =>
            UNCHANGED <<home_team_drives, road_team_drives, triangle_markers,
                        dashed_quarter_lines, y_coord_for_drive_box,
                        home_team_drive_count, road_team_drive_count>> ]_vars

\* the loop has passed a drawn drive and then a drive of no plays that
\* began in a later quarter: one box, one arrow, no divider, one slot used
C8_Witness ==
    /\ pc = "boxes" /\ d_pos = 2
    /\ merged_drive_data[1].plays > 0 /\ merged_drive_data[1].quarter = 1
    /\ merged_drive_data[2].plays = 0 /\ merged_drive_data[2].quarter = 2
    /\ dashed_quarter_lines = <<>>
    /\ Cardinality(DOMAIN triangle_markers) = 1
    /\ home_team_drive_count + road_team_drive_count = 1
    /\ y_coord_for_drive_box = FirstBoxY - (height_of_drive_box + space_between_drive_boxes)

\* C12: the field height is max(58, drives*(boxHeight+gap) +
\* 2*(markerMargin+markerHeight) + gap), drives being the number of records of
\* the merged sequence, drives of no plays included; with the constants of the
\* script that is max(58, 12*drives + 28).
C12_FieldHeight ==
    /\ field_height =
          Max(58, (Len(merged_drive_data) * (height_of_drive_box + space_between_drive_boxes))
                  + (2 * (yd_mrk_distance_from_border + yardage_marker_height))
                  + space_between_drive_boxes)
    /\ field_height = Max(58, (12 * Len(merged_drive_data)) + 28)

\* three drives, one of them of no plays, lift the field over the floor of 58:
\* the field is 64 high and the first box is placed from that height
C12_Witness ==
    /\ pc = "boxes" /\ d_pos = 0
    /\ Len(merged_drive_data) = 3
    /\ \E k \in 1..3 : merged_drive_data[k].plays = 0
    /\ field_height = 64
    /\ y_coord_for_drive_box = 46

\* one pass of the loop body over the next record of the merged sequence
LoopStep == pc = "boxes" /\ d_pos < number_of_drives

\* the pass added a dashed line
DividerCreated == dashed_quarter_lines' # dashed_quarter_lines

\* the box the pass added: the last one of the dict of the drive's team
NewBox ==
    IF CurDrive.team = home_abbrev THEN Last(home_team_drives')[2]
    ELSE Last(road_team_drives')[2]

\* the new line lies half a gap above the top of the slot at the cursor, and
\* the box of the same pass sits at the cursor as it was before the line
DividerPlaced ==
    /\ Len(dashed_quarter_lines') = Len(dashed_quarter_lines) + 1
    /\ Last(dashed_quarter_lines')[2].y =
          y_coord_for_drive_box + height_of_drive_box + (space_between_drive_boxes \div 2)
    /\ NewBox.y = y_coord_for_drive_box

\* the largest quarter of the drives with plays among the first n records,
\* 1 when there is none
LargestDrawnQuarter(n) ==
    LET S == {1} \cup {merged_drive_data[k].quarter :
                          k \in {i \in 1..n : merged_drive_data[i].plays > 0}}
    IN CHOOSE q \in S : \A x \in S : x <= q

\* C14 as stated: a pass of the loop creates a dashed divider exactly when
\* the drive's quarter is greater than the quarter of the record before it
\* in the merged sequence; the divider is at the cursor plus the box height
\* plus half the gap, and the cursor is not moved by creating it.
C14_DividerAsStated ==
    [][ LoopStep =>
          /\ DividerCreated <=>
                (d_pos >= 1 /\ CurDrive.quarter > merged_drive_data[d_pos].quarter)
          /\ DividerCreated => DividerPlaced ]_vars

\* C14 amended: a pass of the loop creates a dashed divider exactly when the
\* drive has plays > 0 and its quarter is greater than the largest quarter of
\* the drives with plays > 0 before it (1 when there is none); the divider is
\* at the cursor plus the box height plus half the gap, and the drive's own
\* box is placed at the cursor as it was before the divider.
C14_DividerRule ==
    [][ LoopStep =>
          /\ DividerCreated <=>
                (CurDrive.plays > 0 /\ CurDrive.quarter > LargestDrawnQuarter(d_pos))
          /\ DividerCreated => DividerPlaced ]_vars

\* a drive of quarter 1, a drive of no plays that opens quarter 2, a drive of
\* quarter 2: the divider came with the third record, above its box
C14_Witness ==
    /\ pc = "boxes" /\ d_pos = 3
    /\ merged_drive_data[1].plays > 0 /\ merged_drive_data[1].quarter = 1
    /\ merged_drive_data[2].plays = 0 /\ merged_drive_data[2].quarter = 2
    /\ merged_drive_data[3].plays > 0 /\ merged_drive_data[3].quarter = 2
    /\ Len(dashed_quarter_lines) = 1
    /\ dashed_quarter_lines[1][1] = <<"Q", 1>>
    /\ dashed_quarter_lines[1][2].y =
          FirstBoxY - (height_of_drive_box + space_between_drive_boxes)
          + height_of_drive_box + (space_between_drive_boxes \div 2)
    /\ y_coord_for_drive_box = FirstBoxY - 2 * (height_of_drive_box + space_between_drive_boxes)

\* the records with plays > 0 among the first n of the merged sequence
Drawn(n) == {i \in 1..n : merged_drive_data[i].plays > 0}

\* the box of the j-th record: its team's dict holds one box for each drawn
\* drive of the team, in the order of the merged sequence
BoxOf(j) ==
    LET t == merged_drive_data[j].team
        slot == Cardinality({i \in Drawn(j) : merged_drive_data[i].team = t})
    IN IF t = home_abbrev THEN home_team_drives[slot][2] ELSE road_team_drives[slot][2]

\* C17: the k-th drive with plays > 0 of the merged sequence, k counted from 0
\* over both teams together, has its box at y0 - k*(boxHeight + gap), y0 the
\* initial cursor; two drawn drives that follow each other have boxes that do
\* not overlap and lie exactly the gap apart.
C17_KthBoxInKthSlot ==
    /\ \A j \in Drawn(d_pos) :
          /\ BoxOf(j).y = FirstBoxY - Cardinality(Drawn(j - 1))
                                        * (height_of_drive_box + space_between_drive_boxes)
          /\ BoxOf(j).height = height_of_drive_box
    /\ \A i, j \in Drawn(d_pos) :
          (i < j /\ Cardinality(Drawn(j - 1)) = Cardinality(Drawn(i - 1)) + 1)
              => BoxOf(i).y - (BoxOf(j).y + BoxOf(j).height) = space_between_drive_boxes

\* a road drive, a drive of no plays, a home drive of the next quarter with
\* its divider: the home drive is drive 1 and its box is one slot down
C17_Witness ==
    /\ pc = "boxes" /\ d_pos = 3
    /\ merged_drive_data[1].plays > 0 /\ merged_drive_data[1].team = road_abbrev
    /\ merged_drive_data[2].plays = 0
    /\ merged_drive_data[3].plays > 0 /\ merged_drive_data[3].team = home_abbrev
    /\ merged_drive_data[3].quarter > merged_drive_data[1].quarter
    /\ Len(dashed_quarter_lines) = 1
    /\ road_team_drives[1][2].y = FirstBoxY
    /\ home_team_drives[1][2].y = FirstBoxY - (height_of_drive_box + space_between_drive_boxes)

-----------------------------------------------------------------------------
(* Properties of the arrows *)

\* equality and order of two pairs <<numerator, denominator>>, denominators > 0
RatEq(a, b) == a[1] * b[2] = b[1] * a[2]
RatLess(a, b) == a[1] * b[2] < b[1] * a[2]

\* the triangle t has its base on the vertical line x = base_x from y + 1 to
\* y + h - 1 and its apex at the height y + h/2, on the side given by direction
ArrowAt(t, direction, base_x, y, h) ==
    /\ t[1] = <<Rat(base_x, 1), Rat(y + 1, 1)>>
    /\ t[3] = <<Rat(base_x, 1), Rat(y + h - 1, 1)>>
    /\ RatEq(t[2][2], Rat(2 * y + h, 2))
    /\ IF direction = "left" THEN RatLess(t[2][1], Rat(base_x, 1))
       ELSE RatLess(Rat(base_x, 1), t[2][1])

\* the arrow of the j-th record: triangle_markers holds one for each drawn drive
ArrowOf(j) == triangle_markers[Cardinality(Drawn(j))][2]

\* get_triangle_coords for both directions, even heights, and some box corners
\* and arrow widths
TriangleShape ==
    \A direction \in {"left", "right"}, x \in 0..3, y \in 0..3, h \in {2, 4, 6, 8, 10},
       width \in {Rat(1, 1), Rat(1976, 70), Rat(1976, 76), Rat(1976, 88)} :
          ArrowAt(get_triangle_coords(direction, x, y, h, width), direction,
                  IF direction = "left" THEN x - 1 ELSE x + 1, y, h)

-----------------------------------------------------------------------------
(* Ties of zero-duration drives, and termination of merge_drive_arrays *)

\* C20: at a tie in elapsed time where both current lines lasted "0:00",
\* the merge does not abort: it appends the line of the first argument, the
\* road team's, and advances the first index only.
C20_DoubleZeroTakesRoad ==
    [][ (pc = "merge" /\ Tie /\ IsZeroDrive(d1_drive_time) /\ IsZeroDrive(d2_drive_time)) =>
          /\ pc' = "merge"
          /\ d_merged' = Append(d_merged, d1_cur)
          /\ d1_cur.team = road_abbrev
          /\ d1_index' = d1_index + 1 /\ d2_index' = d2_index ]_vars

\* the road team's zero-duration line was just taken at a tie, and the home
\* team's zero-duration line of the same time is still waiting
C20_Witness ==
    /\ pc = "merge" /\ d_merged # <<>> /\ d2_index < d2_len
    /\ Last(d_merged).team = road_abbrev
    /\ IsZeroDrive(Last(d_merged).length) /\ IsZeroDrive(d2_drive_time)
    /\ Last(d_merged).elapsed = d2_elapsed_time
    /\ d1_index = 1 /\ d2_index = 0

\* a pass of the outer loop that appends one line and advances one index
AppendsOneAdvancesOne ==
    /\ BothLeft /\ pc' = pc
    /\ \/ /\ d_merged' = Append(d_merged, d1_cur)
          /\ d1_index' = d1_index + 1 /\ d2_index' = d2_index
       \/ /\ d_merged' = Append(d_merged, d2_cur)
          /\ d2_index' = d2_index + 1 /\ d1_index' = d1_index

\* a pass of the outer loop that drains what is left of both inputs
DrainsBoth ==
    /\ ~BothLeft /\ pc' = pc
    /\ d1_index' = d1_len /\ d2_index' = d2_len
    /\ Len(d_merged') = d1_len + d2_len

\* a pass of the outer loop that ends the run
Aborts == pc' = "quit" /\ UNCHANGED mergeVars

MergeOver == pc \in {"returned", "quit"}

\* C19: merge_drive_arrays terminates for every pair of finite inputs: each
\* pass of the outer loop appends a line and advances one index, or drains
\* both inputs, or aborts the run; no pass leaves both indices as they were
\* and goes on, so the function eventually returns or quits.
C19_MergeTerminates ==
    /\ [][ (pc = "merge" /\ MergeLoopCond) =>
              /\ AppendsOneAdvancesOne \/ DrainsBoth \/ Aborts
              /\ pc' = "merge" => (d1_index' + d2_index' > d1_index + d2_index) ]_vars
    /\ <>MergeOver

\* the merge went through a longest run, four passes that took one line
\* each, and returned
C19_Witness ==
    /\ pc = "returned" /\ Len(d1) = 2 /\ Len(d2) = 2
    /\ d_merged[3].team = road_abbrev /\ d_merged[4].team = home_abbrev
    /\ d1[2].elapsed < d2[2].elapsed

-----------------------------------------------------------------------------
(* Properties of the main script *)

\* C15: when a team code is not in the team lookup tables, the run fails
\* before any layout work: nothing of the text chart has been printed, the
\* field height has not been computed and the drawing surface has not been
\* created, in any state of such a run.
C15_UnknownTeamFailsFirst ==
    (teams # NoValue /\ ~TeamsListed) =>
        /\ \A k \in 1..Len(printed) : printed[k][1] # "dc_line"
        /\ \A k \in 1..Len(printed) : printed[k][1] # "header_field_string"
        /\ ~layout.computed
        /\ ~ax.created

\* the stage of the script that adds an artist of this kind: 0 the static
\* field, 1 the boxes and their labels, 2 the dashed lines, 3 the arrows
StageOf(kind) ==
    IF kind \in {"endzone", "endzone_text", "border", "stripe", "yardage_marker", "yardage_text"}
    THEN 0
    ELSE IF kind \in {"drive_box", "label"} THEN 1
    ELSE IF kind = "dashed_line" THEN 2
    ELSE 3

Artists == ax.artists

CountKind(kind) == Cardinality({i \in 1..Len(Artists) : Artists[i].kind = kind})

\* C16 as stated: the static field elements come first, then every drive box,
\* arrow and label, then the quarter dividers; no arrow is added to the
\* drawing surface after a quarter divider.
C16_SceneOrderAsStated ==
    \A i, j \in 1..Len(Artists) :
        i < j =>
            /\ StageOf(Artists[j].kind) = 0 => StageOf(Artists[i].kind) = 0
            /\ Artists[i].kind = "dashed_line" => Artists[j].kind = "dashed_line"

\* C16 amended: the static field elements come first, then every drive box
\* with its label (the home team's, then the road team's), then the quarter
\* dividers, then the arrows; when the script shows the chart, each drive with
\* plays > 0 has one box, one label and one arrow on the surface.
C16_SceneOrder ==
    /\ \A i \in 1..(Len(Artists) - 1) :
          StageOf(Artists[i].kind) <= StageOf(Artists[i + 1].kind)
    /\ \A i \in 1..(Len(Artists) - 1) :
          /\ Artists[i].kind = "drive_box" => Artists[i + 1].kind = "label"
          /\ (Artists[i].kind = "label" /\ Artists[i + 1].kind = "drive_box")
                => (Artists[i - 1].name[1] = "road" => Artists[i + 1].name[1] = "road")
    /\ pc = "shown" =>
          /\ SubSeq(Artists, 1, Len(StaticField)) = StaticField
          /\ CountKind("drive_box") = Cardinality(Drawn(number_of_drives))
          /\ CountKind("label") = Cardinality(Drawn(number_of_drives))
          /\ CountKind("arrow") = Cardinality(Drawn(number_of_drives))
          /\ CountKind("dashed_line") = Len(dashed_quarter_lines)

\* the chart of a home drive of quarter 1 and a road drive of quarter 2 is
\* shown: the divider is on the surface before both arrows
C16_Witness ==
    /\ pc = "shown"
    /\ CountKind("dashed_line") = 1 /\ CountKind("arrow") = 2
    /\ Artists[Len(Artists) - 2].kind = "dashed_line"
    /\ Artists[Len(Artists) - 1].kind = "arrow"
    /\ Artists[Len(Artists)].kind = "arrow"
    /\ Artists[Len(StaticField) + 1].kind = "drive_box"
    /\ Artists[Len(StaticField) + 1].name[1] = "home"
    /\ Artists[Len(StaticField) + 3].name[1] = "road"

-----------------------------------------------------------------------------
(* Properties of the labels *)

\* the text lies outside the box: it starts at or right of the right edge,
\* or ends at or left of the left edge
LabelOutside(label, box) ==
    \/ label.ha = "left" /\ ~RatLess(label.x, Rat(box.x + box.width, 1))
    \/ label.ha = "right" /\ ~RatLess(Rat(box.x, 1), label.x)

\* C13: for every drawn drive box, the label is drawn outside the box in
\* black exactly when the box width is below 15 yards of pixels, and otherwise
\* inside the box in white; an inside label is right-justified at the right
\* edge of the box for the home team and left-justified at its left edge for
\* the road team.
C13_LabelPlacement ==
    \A i \in 1..Len(Artists) :
        Artists[i].kind = "drive_box" =>
            LET box == Artists[i].shape
                label == Artists[i + 1]
            IN /\ i < Len(Artists) /\ label.kind = "label"
               /\ RatEq(label.y, Rat(2 * box.y + box.height, 2))
               /\ IF box.width < 15 * pixels_per_yard
                  THEN label.color = "black" /\ LabelOutside(label, box)
                  ELSE /\ label.color = "white"
                       /\ IF Artists[i].name[1] = "home"
                          THEN label.ha = "right" /\ label.x = Rat(box.x + box.width, 1)
                          ELSE label.ha = "left" /\ label.x = Rat(box.x, 1)

\* a home drive of 14 net yards has a box of exactly 15 yards with its label
\* inside, in white, ending at the right edge of the box
C13_Witness ==
    /\ pc = "dashed"
    /\ merged_drive_data[1].team = home_abbrev /\ merged_drive_data[1].net = 14
    /\ \E i \in 1..Len(Artists) :
          /\ Artists[i].kind = "drive_box" /\ Artists[i].name[1] = "home"
          /\ Artists[i].shape.width = 15 * pixels_per_yard
          /\ Artists[i + 1].color = "white" /\ Artists[i + 1].ha = "right"

-----------------------------------------------------------------------------
(* Properties of the drive boxes and the rows of yardage markers *)

\* the boxes of both dicts
AllBoxes ==
    {home_team_drives[i][2] : i \in 1..Len(home_team_drives)}
    \cup {road_team_drives[i][2] : i \in 1..Len(road_team_drives)}

\* C21: every drawn drive box lies strictly between the two rows of yardage
\* markers: its bottom edge is at least one gap above the top of the bottom
\* markers, its top edge at least one gap below the bottom of the top markers.
C21_BoxesBetweenMarkerRows ==
    \A box \in AllBoxes :
        /\ box.y >= bottom_coord_for_yardage_markers + yardage_marker_height
                    + space_between_drive_boxes
        /\ box.y + box.height <= bottom_coord_for_top_yardage_markers
                                 - space_between_drive_boxes
        /\ box.y > bottom_coord_for_yardage_markers + yardage_marker_height
        /\ box.y + box.height < bottom_coord_for_top_yardage_markers

\* three drives with plays fill a field of height 64: the first box is one
\* gap under the top markers, the third one gap over the bottom markers
C21_Witness ==
    /\ pc = "boxes_done"
    /\ Len(merged_drive_data) = 3 /\ Cardinality(AllBoxes) >= 1
    /\ \A k \in 1..3 : merged_drive_data[k].plays > 0
    /\ field_height = 64
    /\ \E box \in AllBoxes :
          box.y + box.height = bottom_coord_for_top_yardage_markers - space_between_drive_boxes
    /\ \E box \in AllBoxes :
          box.y = bottom_coord_for_yardage_markers + yardage_marker_height
                  + space_between_drive_boxes

-----------------------------------------------------------------------------
(* Properties of the labels of mirrored drives *)

\* the box, at the height of box, of the other team's drive between the
\* mirrored yard lines: from 100 - start to 100 - end, with the same net yards
MirrorBox(d, box) ==
    LET other == IF d.team = home_abbrev THEN road_abbrev ELSE home_abbrev
        c == get_dc_coords(other, home_abbrev, d.plays, d.net,
                           YardScale - d.start, YardScale - d.end)
    IN Rectangle(field_borders + yds2px(10) + yds2px(c[1]), box.y, yds2px(c[2]),
                 height_of_drive_box, d.net < 0)

\* the label is on the side of the arrow: right of a home box, left of a
\* road box
OnArrowSide(side, label) ==
    IF side = "home" THEN label.ha = "left" ELSE label.ha = "right"

\* C22: for every box below 15 yards, a home drive over the yard lines [a,b]
\* has its label on the side of its arrow if and only if the road drive over
\* [100-b,100-a] has its label on the side of its arrow.
C22_MirrorPlacement ==
    \A i \in 1..Len(Artists) :
        (pc = "dashed" /\ Artists[i].kind = "drive_box"
           /\ Artists[i].shape.width < yds2px(15)) =>
            LET d == merged_drive_data[1]
                name == Artists[i].name
                box == Artists[i].shape
                label == Artists[i + 1]
            IN IF name[1] = "home"
               THEN OnArrowSide("home", label)
                       <=> OnArrowSide("road", road_label(name, MirrorBox(d, box)))
               ELSE OnArrowSide("road", label)
                       <=> OnArrowSide("home", home_label(name, MirrorBox(d, box)))

-----------------------------------------------------------------------------
(* Properties of the keys of the dicts *)

\* no two entries of the dict have the same key string
KeysDiffer(dict) ==
    \A i, j \in 1..Len(dict) : i # j => KeyString(dict[i][1]) # KeyString(dict[j][1])

\* a is a prefix of b
IsPrefix(a, b) == Len(a) <= Len(b) /\ SubSeq(b, 1, Len(a)) = a

\* str(count) + "_", the part of a key that follows "home" or "road"
CounterPart(count) == StrNat(count) \o <<"_">>

\* the counter parts of two different counters never begin alike, so the keys
\* of two drives of a team differ whatever follows the counter
CountersTellApart ==
    \A c1, c2 \in 0..MaxCount :
        c1 # c2 => ~IsPrefix(CounterPart(c1), CounterPart(c2))

\* C23: the home boxes and the road boxes together, and the arrows, are as
\* many as the drives with plays > 0 that the loop has walked, so after the
\* loop as many as the drives with plays > 0 of the merged sequence: no two
\* drives get the same dict key, and no box or arrow is overwritten.
C23_OneBoxOneArrowPerDrive ==
    /\ Len(home_team_drives) + Len(road_team_drives) = Cardinality(Drawn(d_pos))
    /\ Len(triangle_markers) = Cardinality(Drawn(d_pos))
    /\ pc = "boxes_done" => d_pos = Len(merged_drive_data)
    /\ KeysDiffer(home_team_drives) /\ KeysDiffer(road_team_drives)
    /\ KeysDiffer(triangle_markers)
    /\ CountersTellApart

\* two home drives with the same result, statistics and comment, and a road
\* drive: three boxes and three arrows, the keys of the two home drives
\* alike but for the counter
C23_Witness ==
    /\ pc = "boxes_done"
    /\ Len(merged_drive_data) = 3
    /\ merged_drive_data[1] = merged_drive_data[2]
    /\ merged_drive_data[1].team = home_abbrev /\ merged_drive_data[1].plays > 0
    /\ merged_drive_data[3].team = road_abbrev /\ merged_drive_data[3].plays > 0
    /\ Len(home_team_drives) = 2 /\ Len(road_team_drives) = 1
    /\ Len(triangle_markers) = 3
    /\ SubSeq(home_team_drives[1][1], 3, 5) = SubSeq(home_team_drives[2][1], 3, 5)
    /\ home_team_drives[1][1][2] = 0 /\ home_team_drives[2][1][2] = 1

=============================================================================
